---- MODULE Spec2Model ----
(***************************************************************************)
(* A model of graph-viewport: the scene tree (Plane -> GraphNode ->        *)
(* in-edge-node / out-edge-node), the reducers of graph-node.js,           *)
(* graph-plane.js, graph-edge.js and graph-viewport.js, and the reducer    *)
(* plumbing of utilities.js.                                               *)
(*                                                                         *)
(* Conventions.                                                            *)
(*  - JavaScript `undefined` is Undefined for keys and linkedTo, NoPoint   *)
(*    for a point; an absent data.selected / data.active is FALSE (the     *)
(*    code only tests their truthiness).                                   *)
(*  - Array indices are 1-based; findIndex returns 0 where JavaScript      *)
(*    returns -1.                                                          *)
(*  - A reducer that throws is modelled by the record it leaves behind:    *)
(*    raised = TRUE and the tree as the partial execution left it.         *)
(*  - A node's worldMatrix is kept as the displacement `pos` it has        *)
(*    accumulated (GraphNode), `offset` (Plane) and the x offset `off` of  *)
(*    an anchor in its node's frame, in units of 1/OffsetDen.              *)
(***************************************************************************)
EXTENDS Integers, Sequences, FiniteSets, TLC

VARIABLES
  root,     \* the Root node: width, height and the Window's matrix
  plane,    \* the Plane node: children (GraphNodes, front first), offset, scale
  queue,    \* reducers emitted by the handlers and not yet applied, oldest first
  drag,     \* the drag in progress, if any
  last,     \* the step taken last: its name, its key, the Plane before it
  streams   \* a stream of sinks: the sinks received, what their channels emitted,
            \* and what extract and extractConcurrently delivered of it

vars == <<root, plane, queue, drag, last, streams>>

\* ------------------------------------------------------------------ bounds

\* the largest key an out-edge-node is given: an open anchor with this key is not dragged
MaxEdgeKey == 2
\* the farthest a GraphNode or the Plane is dragged along one axis
MaxPos == 1
\* the largest |deltaY| of one wheel event
MaxDelta == 2
\* the largest |exponent| of 1.1 the Plane's scale is zoomed to
MaxZoomExp == 1

\* the most sinks the stream of sinks delivers
MaxSinks == 3
\* the most mutations the sinks' channels emit in all
MaxEmissions == 4

\* ------------------------------------------------------------------ values

Undefined == 0 - 1
NoPoint == <<>>

\* the keys of the three GraphNodes of the demo's initState
DemoKeys == {0, 1, 2}

\* the GraphNodes whose anchors the pointer drags
EdgeSources == {0, 1}

\* pointer deltas of a move sample: none, along one axis, along both
Movements == {<<0, 0>>, <<1, 0>>, <<1, 1>>}

\* pointer positions of a drag sample over empty canvas
Points == {<<0, 0>>, <<1, 1>>}

\* anchor offsets are multiples of 1/OffsetDen: n(n+1) divides it for n <= 9
OffsetDen == 8 * 9 * 5 * 7

\* the Plane scales (canvas pixels per plane unit) the container gives at zoom 0
BaseScales == {7, 18, 70}

\* ------------------------------------------------------------------ helpers

\* children.findIndex(c => c.key === key): the first index with that key, 0 if none
findIndex(children, key) ==
  IF \E i \in 1..Len(children) : children[i].key = key
  THEN CHOOSE i \in 1..Len(children) :
         children[i].key = key /\ \A j \in 1..(i - 1) : children[j].key # key
  ELSE 0

\* math.max of a non-empty array of integers
max(seq) == CHOOSE m \in {seq[i] : i \in 1..Len(seq)} : \A i \in 1..Len(seq) : seq[i] <= m

keysOf(seq) == {seq[i].key : i \in 1..Len(seq)}

\* ------------------------------------------------------------------ the tree

inEdgeNode(parentKey) ==
  [type |-> "in-edge-node", key |-> Undefined, parentKey |-> parentKey,
   linkedTo |-> Undefined, to |-> NoPoint, off |-> 0]

outEdgeNode(parentKey) ==
  [type |-> "out-edge-node", key |-> 0, parentKey |-> parentKey,
   linkedTo |-> Undefined, to |-> NoPoint, off |-> 0]

\* the demo's createNode: one in-edge-node, one open out-edge-node, no flags
createNode(key) ==
  [key |-> key, selected |-> FALSE, active |-> FALSE, pos |-> <<0, 0>>,
   children |-> <<inEdgeNode(key), outEdgeNode(key)>>]

\* the demo's initState, below the window frame
initPlane(base) ==
  [children |-> <<createNode(0), createNode(1), createNode(2)>>,
   offset |-> <<0, 0>>, base |-> base, exp |-> 0]

\* ------------------------------------------------------------------ graph-node.js

selectNode(node) == [node EXCEPT !.selected = TRUE, !.active = TRUE]

\* deselectNode without `nodeCopy.data.active = false`
deselectNodeKeepingActive(node) == [node EXCEPT !.selected = FALSE]

deselectNode(node) == [node EXCEPT !.selected = FALSE, !.active = FALSE]

\* children.map(deselectNode)
deselectNodes(children) == [i \in 1..Len(children) |-> deselectNode(children[i])]

\* moveTop that exchanges the keyed child with the first
moveTopSwapping(key, parent) ==
  LET index == findIndex(parent.children, key)
  IN IF index >= 1
     THEN [parent EXCEPT !.children =
             [i \in 1..Len(parent.children) |->
                IF i = 1 THEN parent.children[index]
                ELSE IF i = index THEN parent.children[1]
                ELSE parent.children[i]]]
     ELSE parent

\* moveTop that leaves the children in the order it found them
moveTopKeepingOrder(key, parent) == parent

moveTop(key, parent) ==
  LET index == findIndex(parent.children, key)
  IN IF index >= 1
     THEN [parent EXCEPT !.children =
             <<parent.children[index]>>
             \o SubSeq(parent.children, 1, index - 1)
             \o SubSeq(parent.children, index + 1, Len(parent.children))]
     ELSE parent

\* makeActive that deselects the siblings as makeOnlySelected does
makeActiveDeselectingSiblings(key, parent) ==
  LET parentCopy == moveTop(key, parent)
      L == Len(parentCopy.children)
  IN IF L > 0 /\ parentCopy.children[1].key = key
     THEN [parentCopy EXCEPT !.children =
             <<selectNode(parentCopy.children[1])>>
             \o deselectNodes(SubSeq(parentCopy.children, 2, L))]
     ELSE parentCopy

makeActive(key, parent) ==
  LET parentCopy == moveTop(key, parent)
      L == Len(parentCopy.children)
  IN IF L > 0 /\ parentCopy.children[1].key = key
     THEN [parentCopy EXCEPT !.children =
             [i \in 1..L |->
                IF i = 1 THEN selectNode(parentCopy.children[1])
                ELSE [parentCopy.children[i] EXCEPT !.active = FALSE]]]
     ELSE parentCopy

\* makeOnlySelected with the siblings' selected flag left alone (makeActive's clearing)
makeOnlySelectedKeepingSelected(key, parent) == makeActive(key, parent)

makeOnlySelected(key, parent) ==
  LET parentCopy == moveTop(key, parent)
      L == Len(parentCopy.children)
  IN IF L > 0 /\ parentCopy.children[1].key = key
     THEN [parentCopy EXCEPT !.children =
             <<selectNode(parentCopy.children[1])>>
             \o deselectNodes(SubSeq(parentCopy.children, 2, L))]
     ELSE parentCopy

movedNode(node, dx, dy) == [node EXCEPT !.pos = <<node.pos[1] + dx, node.pos[2] + dy>>]

\* dragNodes that moves every node, selected or not
dragNodesAll(delta, parent) ==
  [parent EXCEPT !.children =
     [i \in 1..Len(parent.children) |->
        movedNode(parent.children[i], delta[1], delta[2])]]

dragNodes(delta, parent) ==
  [parent EXCEPT !.children =
     [i \in 1..Len(parent.children) |->
        IF parent.children[i].selected
        THEN movedNode(parent.children[i], delta[1], delta[2])
        ELSE parent.children[i]]]

\* onlySelected$ that does not count the selected siblings
onlySelectedIgnoringSiblings(parent, state) == state.selected

\* GraphNode's onlySelected$: this node is selected and is the only selected sibling
onlySelected(parent, state) ==
  LET numberSelected == Len(SelectSeq(parent.children, LAMBDA c : c.selected))
  IN state.selected /\ numberSelected = 1

\* ------------------------------------------------------------------ graph-plane.js

deselectGraphNodes(p) == [p EXCEPT !.children = deselectNodes(p.children)]

dragPlane(p, dx, dy) ==
  [p EXCEPT !.offset = <<p.offset[1] + dx, p.offset[2] + dy>>,
            !.children = deselectNodes(p.children)]

RECURSIVE Pow(_, _)
Pow(b, n) == IF n = 0 THEN 1 ELSE b * Pow(b, n - 1)

\* the bounds of changeZoom's check, and the base of its scale factor 1.1 = 11/10
ZoomMin == 5
ZoomMax == 10
ZoomFactorNum == 11
ZoomFactorDen == 10

\* the Plane's scale base * 1.1^exp as a fraction scaleNum / scaleDen
scaleNum(p) == p.base * (IF p.exp >= 0 THEN Pow(ZoomFactorNum, p.exp) ELSE Pow(ZoomFactorDen, 0 - p.exp))
scaleDen(p) == IF p.exp >= 0 THEN Pow(ZoomFactorDen, p.exp) ELSE Pow(ZoomFactorNum, 0 - p.exp)

\* vecFrameTrans([1, 1], plane, canvas) = (s, -s) has norm s * sqrt(2); the norm is
\* compared through its square 2 s^2
unitDiagonalBelow(p, c) == 2 * scaleNum(p) * scaleNum(p) < c * c * scaleDen(p) * scaleDen(p)
unitDiagonalAbove(p, c) == 2 * scaleNum(p) * scaleNum(p) > c * c * scaleDen(p) * scaleDen(p)

\* changeZoom's zoomScale = sqrt(norm): zoomScale < c iff norm < c^2
zoomScaleBelow(p, c) == unitDiagonalBelow(p, c * c)
zoomScaleAbove(p, c) == unitDiagonalAbove(p, c * c)

\* scaledFrame(plane, 1.1^(-deltaY) [1, 1], mouseFrame): the scale only
changeZoom(deltaY, p) ==
  IF zoomScaleBelow(p, ZoomMin) /\ deltaY > 0 THEN p
  ELSE IF zoomScaleAbove(p, ZoomMax) /\ deltaY < 0 THEN p
  ELSE [p EXCEPT !.exp = p.exp - deltaY]

\* ------------------------------------------------------------------ graph-edge.js

\* getOver found nothing
NoNode == [type |-> "none"]

isOutEdge(e) == e.type = "out-edge-node"
isOpen(e) == isOutEdge(e) /\ e.linkedTo = Undefined

\* translatedFrame(e, [num / den, 0], node) of frames.js: a copy of e moved along x
translatedFrame(e, num, den) == [e EXCEPT !.off = e.off + (num * OffsetDen) \div den]

\* hoverDrag$ that takes the anchor's own in-edge-node for a link candidate
hoverSampleAnyInEdge(event, state, grandparent) ==
  IF event.over.type = "in-edge-node"
  THEN [hoveredNode |-> event.over, position |-> NoPoint, type |-> event.type]
  ELSE [hoveredNode |-> NoNode, position |-> event.at, type |-> event.type]

\* one sample of hoverDrag$ before dropRepeats
hoverSample(event, state, grandparent) ==
  IF /\ event.over.type # "none"
     /\ event.over.type = "in-edge-node"
     /\ event.over.parentKey # state.parentKey
  THEN [hoveredNode |-> event.over, position |-> NoPoint, type |-> event.type]
  ELSE [hoveredNode |-> NoNode, position |-> event.at, type |-> event.type]

\* the isEqual of hoverDrag$'s dropRepeats
sameHover(a, b) == a.hoveredNode.type # "none" /\ b.hoveredNode.type # "none" /\ a.type = b.type

\* updateEdgeNode that keeps the link when nothing is hovered
updateEdgeNodeKeepingLink(edgeNode, hoveredNode, position) ==
  [edgeNode EXCEPT
     !.linkedTo = IF hoveredNode.type # "none" THEN hoveredNode.parentKey ELSE edgeNode.linkedTo,
     !.to = position]

updateEdgeNode(edgeNode, hoveredNode, position) ==
  [edgeNode EXCEPT
     !.linkedTo = IF hoveredNode.type # "none" THEN hoveredNode.parentKey ELSE Undefined,
     !.to = position]

\* the self reducer of a release: updateEdgeNode, then data.to = undefined
releaseEdgeNode(edgeNode, hoveredNode, position) ==
  [updateEdgeNode(edgeNode, hoveredNode, position) EXCEPT !.to = NoPoint]

\* addEdgeNode that appends the new anchor and leaves the others where they were
addEdgeNodeUnspaced(node) ==
  LET np1 == Len(node.children)
      newEdge == [translatedFrame(node.children[np1], 2, np1 * (np1 + 1)) EXCEPT
                    !.linkedTo = Undefined,
                    !.key = max([j \in 1..np1 |->
                                   IF node.children[j].key = Undefined
                                   THEN 0 ELSE node.children[j].key]) + 1]
  IN [node EXCEPT !.children = node.children \o <<newEdge>>]

\* addEdgeNode without `newEdge.key = ...`: the copy keeps the key of the last child
addEdgeNodeKeepingKey(node) ==
  LET np1 == Len(node.children)
      newEdge == [translatedFrame(node.children[np1], 2, np1 * (np1 + 1)) EXCEPT
                    !.linkedTo = Undefined]
  IN [node EXCEPT !.children =
        [j \in 1..np1 |->
           IF isOutEdge(node.children[j])
           THEN translatedFrame(node.children[j], 0 - 2 * (j - 1), np1 * (np1 + 1))
           ELSE node.children[j]]
        \o <<newEdge>>]

\* addEdgeNode without `newEdge.data.linkedTo = undefined`: the copy keeps the link
addEdgeNodeKeepingLink(node) ==
  LET np1 == Len(node.children)
      newEdge == [translatedFrame(node.children[np1], 2, np1 * (np1 + 1)) EXCEPT
                    !.key = max([j \in 1..np1 |->
                                   IF node.children[j].key = Undefined
                                   THEN 0 ELSE node.children[j].key]) + 1]
  IN [node EXCEPT !.children =
        [j \in 1..np1 |->
           IF isOutEdge(node.children[j])
           THEN translatedFrame(node.children[j], 0 - 2 * (j - 1), np1 * (np1 + 1))
           ELSE node.children[j]]
        \o <<newEdge>>]

addEdgeNode(node) ==
  LET np1 == Len(node.children)
      newEdge == [translatedFrame(node.children[np1], 2, np1 * (np1 + 1)) EXCEPT
                    !.linkedTo = Undefined,
                    !.key = max([j \in 1..np1 |->
                                   IF node.children[j].key = Undefined
                                   THEN 0 ELSE node.children[j].key]) + 1]
  IN [node EXCEPT !.children =
        [j \in 1..np1 |->
           IF isOutEdge(node.children[j])
           THEN translatedFrame(node.children[j], 0 - 2 * (j - 1), np1 * (np1 + 1))
           ELSE node.children[j]]
        \o <<newEdge>>]

\* removeEdgeNode that takes out the last child, whatever the index
removeEdgeNodeLast(node, index) ==
  LET np1 == Len(node.children)
  IN [node EXCEPT !.children =
        [j \in 1..(np1 - 1) |->
           IF isOutEdge(node.children[j])
           THEN translatedFrame(node.children[j], 2 * (j - 1), np1 * (np1 - 1))
           ELSE node.children[j]]]

\* index is 1-based
removeEdgeNode(node, index) ==
  LET np1 == Len(node.children)
      before == [j \in 1..(index - 1) |->
                   IF isOutEdge(node.children[j])
                   THEN translatedFrame(node.children[j], 2 * (j - 1), np1 * (np1 - 1))
                   ELSE node.children[j]]
      after == [j \in 1..(np1 - index) |->
                  translatedFrame(node.children[index + j],
                                  0 - 2 * (np1 - (index + j - 1)), np1 * (np1 - 1))]
  IN [node EXCEPT !.children = before \o after]

\* node.children.findIndex of the first out-edge-node without linkedTo, 0 if none
findOpenIndex(children) ==
  IF \E i \in 1..Len(children) : isOpen(children[i])
  THEN CHOOSE i \in 1..Len(children) :
         isOpen(children[i]) /\ \A j \in 1..(i - 1) : ~isOpen(children[j])
  ELSE 0

\* updateGraphNode that never appends a fresh anchor
updateGraphNodeNoAppend(node) ==
  LET index == findOpenIndex(node.children)
  IN IF index = 0 \/ index = Len(node.children) THEN node ELSE removeEdgeNode(node, index)

updateGraphNode(node) ==
  LET index == findOpenIndex(node.children)
  IN IF index = 0 THEN addEdgeNode(node)
     ELSE IF index = Len(node.children) THEN node
     ELSE removeEdgeNode(node, index)

\* ------------------------------------------------------------------ utilities.js

\* liftReducer('self') of GraphNode: a GraphEdge's reducer, keyed by the edge, becomes a
\* reducer of its GraphNode
liftEdgeReducer(m, tree) ==
  LET index == findIndex(tree.children, m.edge)
  IN IF index >= 1
     THEN [tree EXCEPT !.children[index] =
             IF m.fn = "updateEdgeNode"
             THEN updateEdgeNode(tree.children[index], m.hovered, m.at)
             ELSE releaseEdgeNode(tree.children[index], m.hovered, m.at)]
     ELSE tree

\* the channels of a sink
Channels == {"self", "parent"}

\* flatten keeping the streams received earlier subscribed
flattenKeepingEarlier(delivered, received, e) ==
  IF e.sink <= received THEN Append(delivered, e) ELSE delivered

\* .flatten() of a stream of streams: only the stream received last is listened to, so an
\* event e of a stream received before it is dropped
flatten(delivered, received, e) ==
  IF e.sink = received THEN Append(delivered, e) ELSE delivered

\* flattenConcurrently of a stream of streams: every stream received so far is listened to
flattenConcurrently(delivered, received, e) ==
  IF e.sink <= received THEN Append(delivered, e) ELSE delivered

\* extract(key): the sinks mapped to their channel `key`, flattened
extract(key, delivered, received, e) ==
  IF e.channel = key THEN flatten(delivered, received, e) ELSE delivered

\* extractConcurrently(key): the sinks mapped to their channel `key`, flattened concurrently
extractConcurrently(key, delivered, received, e) ==
  IF e.channel = key THEN flattenConcurrently(delivered, received, e) ELSE delivered

\* ------------------------------------------------------------------ graph-viewport.js

\* the key appendNode gives the new GraphNode
appendNodeKey(p) ==
  IF Len(p.children) > 0 THEN max([i \in 1..Len(p.children) |-> p.children[i].key]) + 1 ELSE 0

\* appendNode's newBox
newBox(key) ==
  [key |-> key, selected |-> TRUE, active |-> TRUE, pos |-> <<0, 0>>,
   children |-> <<inEdgeNode(key), outEdgeNode(key)>>]

\* appendNode builds newBox and then evaluates `deselectBox`, a name bound nowhere
\* in graph-viewport.js: a ReferenceError before planeFrame.children is assigned
appendNode(p) ==
  LET key == appendNodeKey(p)
      box == newBox(key)
  IN [raised |-> TRUE, plane |-> p]

\* deleteSelectedNodes assigns the filtered list to planeFrame.children in place
\* (keeping the nodes with data.selected) and then evaluates `height`, a name bound
\* nowhere: a ReferenceError after the tree was changed
deleteSelectedNodes(p) ==
  [raised |-> TRUE,
   plane |-> [p EXCEPT !.children = SelectSeq(p.children, LAMBDA n : n.selected)]]

\* the Window's matrix resizeState builds, [[w/2, 0, w/2], [0, -h/2, h/2], [0, 0, 1]]:
\* its entries, doubled
windowMatrix(width, height) ==
  [xx |-> width, xt |-> width, yy |-> 0 - height, yt |-> height]

\* a point of the Window in canvas pixels: the matrix applied to (x, y, 1)
windowToCanvas(matrix, x, y) ==
  <<(matrix.xx * x + matrix.xt) \div 2, (matrix.yy * y + matrix.yt) \div 2>>

\* withWorldMatrix(window, matrix) as resizeState reads its result: the Plane keeps
\* its place in the Window, so its scale follows the Window's on each axis
withWorldMatrix(tree, p, width, height) ==
  [x |-> <<p.base * width, tree.width>>, y |-> <<p.base * height, tree.height>>]

\* resizeState without the Y flip of the Window
resizeStateUnflipped(tree, p, width, height) ==
  [root |-> [width |-> width, height |-> height,
             window |-> [xx |-> width, xt |-> width, yy |-> height, yt |-> height]],
   plane |-> [p EXCEPT !.base = (p.base * height) \div tree.height]]

\* resizeState: the Window's matrix for the new size, then scaledFrame(plane,
\* [-M11 / M00, 1]) makes the Plane's x scale M00 * (-M11 / M00), its y scale again
resizeState(tree, p, width, height) ==
  LET M == withWorldMatrix(tree, p, width, height)
  IN [root |-> [width |-> width, height |-> height,
                window |-> windowMatrix(width, height)],
      plane |-> [p EXCEPT !.base = M.y[1] \div M.y[2]]]

\* planeReducer$: a reducer of the Plane lifted to the Root
planeReducerRoot(tree) ==
  [width |-> tree.width, height |-> tree.height, window |-> tree.window]

\* ------------------------------------------------------------------ reducers in flight

\* a reducer as the Plane's state sink receives it: a GraphNode's self reducer keyed
\* by the node (fn, key), a GraphEdge's self reducer keyed by the anchor and then by
\* the node (fn, key, edge, hovered, at), or a Plane reducer (fn, key or arg)
Mut(fn, key, edge, hovered, at, arg) ==
  [fn |-> fn, key |-> key, edge |-> edge, hovered |-> hovered, at |-> at, arg |-> arg]

nodeSelf(fn, key) == Mut(fn, key, Undefined, NoNode, NoPoint, <<>>)
edgeSelf(fn, key, edge, hovered, at) == Mut(fn, key, edge, hovered, at, <<>>)
planeReducer(fn, key, arg) == Mut(fn, key, Undefined, NoNode, NoPoint, arg)

\* the reducers a GraphNode emits on its self channel, by name
nodeReducer(fn, node) ==
  CASE fn = "selectNode" -> selectNode(node)
    [] fn = "deselectNode" -> deselectNode(node)
    [] fn = "updateGraphNode" -> updateGraphNode(node)

NodeReducers == {"selectNode", "deselectNode", "updateGraphNode"}

\* the reducer a keyed bundle of a GraphNode carries: the node's own, or its edge's lifted
reducer(m, node) ==
  IF m.fn \in NodeReducers THEN nodeReducer(m.fn, node) ELSE liftEdgeReducer(m, node)

\* liftReducer whose lift replaces the child after the one found
liftReducerNextChild(m, tree) ==
  LET index == findIndex(tree.children, m.key)
  IN IF index >= 1 /\ index < Len(tree.children)
     THEN [tree EXCEPT !.children[index + 1] = reducer(m, tree.children[index + 1])]
     ELSE tree

\* liftReducer that falls back on the child at the place of the last child when the
\* key is absent
liftReducerOrLast(m, tree) ==
  LET index == findIndex(tree.children, m.key)
      L == Len(tree.children)
  IN IF index >= 1
     THEN [tree EXCEPT !.children[index] = reducer(m, tree.children[index])]
     ELSE IF L >= 1
          THEN [tree EXCEPT !.children[L] = reducer(m, tree.children[L])]
          ELSE tree

\* liftReducer whose lift applies the reducer to the first child when the key is absent
liftReducerOrFirst(m, tree) ==
  LET index == findIndex(tree.children, m.key)
  IN IF index >= 1
     THEN [tree EXCEPT !.children[index] = reducer(m, tree.children[index])]
     ELSE IF Len(tree.children) > 0
          THEN [tree EXCEPT !.children[1] = reducer(m, tree.children[1])]
          ELSE tree

\* liftReducer's lift({ key, reducer })(tree)
liftReducer(m, tree) ==
  LET index == findIndex(tree.children, m.key)
  IN IF index >= 1
     THEN [tree EXCEPT !.children[index] = reducer(m, tree.children[index])]
     ELSE tree

\* what GraphPlane's merged state stream does with one reducer: children$ through
\* liftReducer('self') for the keyed ones, the parent channel and the Plane's own as is
applyReducer(m, p) ==
  CASE m.fn \in NodeReducers \cup {"updateEdgeNode", "releaseEdgeNode"} -> liftReducer(m, p)
    [] m.fn = "makeActive" -> makeActive(m.key, p)
    [] m.fn = "makeOnlySelected" -> makeOnlySelected(m.key, p)
    [] m.fn = "dragNodes" -> dragNodes(m.arg, p)
    [] m.fn = "dragPlane" -> dragPlane(p, m.arg[1], m.arg[2])
    [] m.fn = "deselectGraphNodes" -> deselectGraphNodes(p)
    [] m.fn = "changeZoom" -> changeZoom(m.arg[1], p)

\* ------------------------------------------------------------------ state

NoDrag == [kind |-> "none", key |-> Undefined, edge |-> Undefined]

\* a stream of sinks that has delivered no sink yet
NoStreams ==
  [received |-> 0, emitted |-> <<>>,
   latest |-> [key \in Channels |-> <<>>],
   concurrent |-> [key \in Channels |-> <<>>]]
NoSample == [hoveredNode |-> NoNode, position |-> NoPoint, type |-> "none"]
NoEvent == [name |-> "none"]

\* the child with the given key (the key is present)
childOf(tree, key) == tree.children[findIndex(tree.children, key)]
hasKey(tree, key) == key \in keysOf(tree.children)

\* no reducer is pending and no drag is in progress: the next pointer event is taken
Idle == queue = <<>> /\ drag.kind = "none"

\* the tree a reducer was given, as it reads once the reducer has returned: selectNode
\* and deselectNode copy the node but write into the data object the copy shares
\* with it; makeActive and makeOnlySelected apply them to the nodes of the tree they
\* were given (makeActive rebuilds the data of all nodes but the first)
snapshotAfter(m, p) ==
  LET index == findIndex(p.children, m.key)
  IN CASE m.fn \in {"selectNode", "deselectNode"} -> liftReducer(m, p)
       [] m.fn = "makeActive" ->
            IF index >= 1
            THEN [p EXCEPT !.children[index] = selectNode(p.children[index])]
            ELSE p
       [] m.fn = "makeOnlySelected" ->
            IF index >= 1
            THEN [p EXCEPT !.children =
                    [i \in 1..Len(p.children) |->
                       IF i = index THEN selectNode(p.children[i])
                       ELSE deselectNode(p.children[i])]]
            ELSE p
       [] OTHER -> p

\* how many shift+clicks in a row GraphNode k has had once this one is counted, from
\* one that found it neither selected nor active; 0 when the row began otherwise
shiftClicks(k) ==
  IF ~childOf(plane, k).selected /\ ~childOf(plane, k).active THEN 1
  ELSE IF last.nth = 1 /\ last.key = k THEN 2
  ELSE 0

\* the record of a step: its name and key, the event it came from (src) and that
\* event's place in a row of shift+clicks (nth), whether it raised, whether it edited
\* the tree it was given, and the Root and the Plane before it
Step(op, key, src, nth, raised, edited, ev) ==
  [op |-> op, key |-> key, src |-> src, nth |-> nth, raised |-> raised,
   edited |-> edited, root |-> root, pre |-> plane, ev |-> ev]

\* a step of the handlers: the event, the reducers it emits, the drag it leaves;
\* last.ev keeps an anchor drag's event for the reducers it emitted
Emit(name, key, ev, muts, d) ==
  /\ queue' = queue \o muts
  /\ drag' = d
  /\ last' = Step(name, key, name, IF name = "shiftclick" THEN shiftClicks(key) ELSE 0,
                  FALSE, FALSE, ev)
  /\ UNCHANGED <<root, plane, streams>>

\* every GraphNode, and the Plane, stay within MaxPos of where they started
canMove(delta) ==
  /\ \A i \in 1..Len(plane.children) :
       /\ plane.children[i].pos[1] + delta[1] <= MaxPos
       /\ plane.children[i].pos[2] + delta[2] <= MaxPos
  /\ plane.offset[1] + delta[1] <= MaxPos
  /\ plane.offset[2] + delta[2] <= MaxPos

\* construction: the host's initial tree, no reducer pending, no drag
\* the container initState$ found: the demo's Plane, 0.1 of the Window's half height
\* per unit, has scale base in a container 2 * 10 * base pixels high (and as wide)
containerOf(p) ==
  [width |-> 2 * 10 * p.base, height |-> 2 * 10 * p.base,
   window |-> windowMatrix(2 * 10 * p.base, 2 * 10 * p.base)]

InitWith(planes) ==
  /\ plane \in planes
  /\ root = containerOf(plane)
  /\ queue = <<>>
  /\ drag = NoDrag
  /\ streams = NoStreams
  /\ last = [op |-> "init", key |-> Undefined, src |-> "init", nth |-> 0,
             raised |-> FALSE, edited |-> FALSE, root |-> root, pre |-> plane,
             ev |-> NoEvent]

\* the demo's tree in a container 360 pixels high and wide
Init == InitWith({initPlane(18)})

\* the demo's tree in containers of several heights
InitPlane == InitWith({initPlane(base) : base \in BaseScales})

\* ------------------------------------------------------------------ GraphNode handlers

\* shiftclick$: a single click with the shift key on GraphNode k
ShiftClick(k) ==
  /\ Idle /\ hasKey(plane, k)
  /\ LET state == childOf(plane, k)
     IN Emit("shiftclick", k, NoEvent,
             IF state.active
             THEN <<nodeSelf("deselectNode", k)>>
             ELSE <<nodeSelf("selectNode", k), planeReducer("makeActive", k, <<>>)>>,
             NoDrag)

\* click$: a single click without the shift key on GraphNode k
Click(k) ==
  /\ Idle /\ hasKey(plane, k)
  /\ LET state == childOf(plane, k)
     IN Emit("click", k, NoEvent,
             IF state.active
             THEN IF onlySelected(plane, state)
                  THEN <<nodeSelf("deselectNode", k)>>
                  ELSE <<planeReducer("makeOnlySelected", k, <<>>)>>
             ELSE <<planeReducer("makeOnlySelected", k, <<>>)>>,
             NoDrag)

\* moveStart$ whose merge emits the move before the selection reducer
NodeDragStartMoveFirst(k, shiftKey, e) ==
  /\ Idle /\ hasKey(plane, k) /\ canMove(e)
  /\ LET state == childOf(plane, k)
     IN Emit("drag-start", k, [name |-> "drag-start", shiftKey |-> shiftKey, delta |-> e],
             IF state.active
             THEN <<planeReducer("dragNodes", Undefined, e)>>
             ELSE IF state.selected \/ shiftKey
                  THEN <<planeReducer("dragNodes", Undefined, e),
                         planeReducer("makeActive", k, <<>>)>>
                  ELSE <<planeReducer("dragNodes", Undefined, e),
                         planeReducer("makeOnlySelected", k, <<>>)>>,
             [kind |-> "node", key |-> k, edge |-> Undefined])

\* drag$, moveStart$: the first move sample e of a drag on GraphNode k
NodeDragStart(k, shiftKey, e) ==
  /\ Idle /\ hasKey(plane, k) /\ canMove(e)
  /\ LET state == childOf(plane, k)
     IN Emit("drag-start", k, [name |-> "drag-start", shiftKey |-> shiftKey, delta |-> e],
             IF state.active
             THEN <<planeReducer("dragNodes", Undefined, e)>>
             ELSE IF state.selected \/ shiftKey
                  THEN <<planeReducer("makeActive", k, <<>>),
                         planeReducer("dragNodes", Undefined, e)>>
                  ELSE <<planeReducer("makeOnlySelected", k, <<>>),
                         planeReducer("dragNodes", Undefined, e)>>,
             [kind |-> "node", key |-> k, edge |-> Undefined])

\* drag$, moveEnd$: a later move sample e of the drag in progress
NodeDragMove(e) ==
  /\ queue = <<>> /\ drag.kind = "node" /\ canMove(e)
  /\ Emit("drag-move", drag.key, [name |-> "drag-move", delta |-> e],
          IF e[1] # 0 /\ e[2] # 0
          THEN <<planeReducer("dragNodes", Undefined, e)>>
          ELSE <<>>,
          drag)

\* the pointer is released: the drag's move stream ends
NodeDragEnd ==
  /\ queue = <<>> /\ drag.kind = "node"
  /\ Emit("drag-end", drag.key, NoEvent, <<>>, NoDrag)

\* ------------------------------------------------------------------ GraphPlane handlers

\* drag$: one move sample e of a drag on the empty Plane
Pan(e) ==
  /\ Idle /\ canMove(e)
  /\ Emit("pan", Undefined, NoEvent,
          IF e[1] # 0 /\ e[2] # 0
          THEN <<planeReducer("dragPlane", Undefined, e)>>
          ELSE <<>>,
          NoDrag)

\* deselect$: a single click on the empty Plane
PlaneClick ==
  /\ Idle
  /\ Emit("plane-click", Undefined, NoEvent,
          <<planeReducer("deselectGraphNodes", Undefined, <<>>)>>, NoDrag)

\* changeZoom$: a wheel event
Wheel(deltaY) ==
  /\ Idle
  /\ plane.exp - deltaY <= MaxZoomExp /\ plane.exp - deltaY >= 0 - MaxZoomExp
  /\ Emit("wheel", Undefined, NoEvent,
          <<planeReducer("changeZoom", Undefined, <<deltaY>>)>>, NoDrag)

\* ------------------------------------------------------------------ GraphEdge handlers

\* what the pointer may be over during an anchor drag: nothing, a GraphNode's body,
\* or the in-edge-node of a GraphNode of the Plane the handler holds
Overs(p) ==
  {NoNode, [type |-> "graph-node"]}
  \cup {p.children[i].children[1] : i \in 1..Len(p.children)}

\* the pointer goes down on out-edge-node ek of GraphNode k
EdgeDragStart(k, ek) ==
  /\ Idle /\ hasKey(plane, k)
  /\ \E j \in 1..Len(childOf(plane, k).children) :
       LET e == childOf(plane, k).children[j]
       IN /\ isOutEdge(e) /\ e.key = ek
          /\ (isOpen(e) => e.key < MaxEdgeKey)
  /\ Emit("edge-down", k, NoEvent, <<>>,
          [kind |-> "edge", key |-> k, edge |-> ek, prev |-> NoSample, start |-> plane])

\* drag$ whose release reaches the state sink with the repair ahead of the
\* anchor's own reducer
EdgeSampleRepairFirst(type, over, at) ==
  LET state == childOf(childOf(drag.start, drag.key), drag.edge)
      sample == hoverSample([type |-> type, over |-> over, at |-> at], state, drag.start)
      dropped == sameHover(sample, drag.prev)
      name == IF type = "mousemove" THEN "edge-move" ELSE "edge-release"
  IN Emit(name, drag.key,
          [name |-> name, key |-> drag.key, edge |-> drag.edge, sample |-> sample,
           dropped |-> dropped, start |-> drag.start],
          IF dropped THEN <<>>
          ELSE IF type = "mousemove"
               THEN <<edgeSelf("updateEdgeNode", drag.key, drag.edge,
                               sample.hoveredNode, sample.position)>>
               ELSE <<nodeSelf("updateGraphNode", drag.key),
                      edgeSelf("releaseEdgeNode", drag.key, drag.edge,
                               sample.hoveredNode, sample.position)>>,
          IF type = "mousemove"
          THEN [drag EXCEPT !.prev = IF dropped THEN drag.prev ELSE sample]
          ELSE NoDrag)

\* hoverDrag$ and drag$ on one sample of the anchor drag in progress
EdgeSample(type, over, at) ==
  LET state == childOf(childOf(drag.start, drag.key), drag.edge)
      sample == hoverSample([type |-> type, over |-> over, at |-> at], state, drag.start)
      dropped == sameHover(sample, drag.prev)
      name == IF type = "mousemove" THEN "edge-move" ELSE "edge-release"
  IN Emit(name, drag.key,
          [name |-> name, key |-> drag.key, edge |-> drag.edge, sample |-> sample,
           dropped |-> dropped, start |-> drag.start],
          IF dropped THEN <<>>
          ELSE IF type = "mousemove"
               THEN <<edgeSelf("updateEdgeNode", drag.key, drag.edge,
                               sample.hoveredNode, sample.position)>>
               ELSE <<edgeSelf("releaseEdgeNode", drag.key, drag.edge,
                               sample.hoveredNode, sample.position),
                      nodeSelf("updateGraphNode", drag.key)>>,
          IF type = "mousemove"
          THEN [drag EXCEPT !.prev = IF dropped THEN drag.prev ELSE sample]
          ELSE NoDrag)

EdgeDragMove(over, at) ==
  /\ queue = <<>> /\ drag.kind = "edge" /\ over \in Overs(drag.start)
  /\ EdgeSample("mousemove", over, at)

EdgeDragRelease(over, at) ==
  /\ queue = <<>> /\ drag.kind = "edge" /\ over \in Overs(drag.start)
  /\ EdgeSample("mouseup", over, at)

\* ------------------------------------------------------------------ edit operations

\* the host applies appendNode to the tree
AppendNode ==
  /\ Idle
  /\ LET r == appendNode(plane)
     IN /\ plane' = r.plane
        /\ last' = Step("appendNode", Undefined, "appendNode", 0, r.raised,
                        r.plane # plane, NoEvent)
  /\ UNCHANGED <<root, queue, drag, streams>>

\* the host applies deleteSelectedNodes to the tree
DeleteSelectedNodes ==
  /\ Idle
  /\ LET r == deleteSelectedNodes(plane)
     IN /\ plane' = r.plane
        /\ last' = Step("deleteSelectedNodes", Undefined, "deleteSelectedNodes", 0,
                        r.raised, r.plane # plane, NoEvent)
  /\ UNCHANGED <<root, queue, drag, streams>>

\* the host applies deleteSelectedNodes while the pointer is down in a drag
DeleteDuringDrag ==
  /\ queue = <<>> /\ drag.kind # "none"
  /\ LET r == deleteSelectedNodes(plane)
     IN /\ plane' = r.plane
        /\ last' = Step("deleteSelectedNodes", Undefined, "deleteSelectedNodes", 0,
                        r.raised, r.plane # plane, NoEvent)
  /\ UNCHANGED <<root, queue, drag, streams>>

\* resizeState$: the container now measures width by height
Resize(width, height) ==
  /\ Idle
  /\ LET r == resizeState(root, plane, width, height)
     IN /\ root' = r.root
        /\ plane' = r.plane
  /\ last' = Step("resizeState", Undefined, "resizeState", 0, FALSE, FALSE,
                  [name |-> "resize", width |-> width, height |-> height])
  /\ UNCHANGED <<queue, drag, streams>>

\* ------------------------------------------------------------------ streams of sinks

\* the stream of sinks delivers its next sink
ReceiveSink ==
  /\ streams.received < MaxSinks
  /\ streams' = [streams EXCEPT !.received = @ + 1]
  /\ UNCHANGED <<root, plane, queue, drag, last>>

\* a sink received so far emits a mutation on one of its channels; extract(key) and
\* extractConcurrently(key) of the stream of sinks deliver it or not
EmitOn(sink, channel) ==
  /\ Len(streams.emitted) < MaxEmissions
  /\ sink \in 1..streams.received
  /\ LET e == [sink |-> sink, channel |-> channel, received |-> streams.received,
               id |-> Len(streams.emitted) + 1]
     IN streams' =
          [streams EXCEPT
             !.emitted = Append(@, e),
             !.latest = [key \in Channels |->
                           extract(key, @[key], streams.received, e)],
             !.concurrent = [key \in Channels |->
                               extractConcurrently(key, @[key], streams.received, e)]]
  /\ UNCHANGED <<root, plane, queue, drag, last>>

\* ------------------------------------------------------------------ the state sink

\* the oldest pending reducer is applied to the tree
ApplyPending ==
  /\ queue # <<>>
  /\ plane' = applyReducer(Head(queue), plane)
  /\ root' = planeReducerRoot(root)
  /\ queue' = Tail(queue)
  /\ last' = [last EXCEPT !.op = Head(queue).fn, !.key = Head(queue).key,
                          !.raised = FALSE, !.pre = plane, !.root = root,
                          !.edited = snapshotAfter(Head(queue), plane) # plane]
  /\ UNCHANGED <<drag, streams>>

\* ------------------------------------------------------------------ specifications

\* selection, node drag, pan, click-to-deselect and the two edit operations
Next ==
  \/ \E k \in DemoKeys : ShiftClick(k)
  \/ \E k \in DemoKeys : Click(k)
  \/ \E k \in DemoKeys, shiftKey \in BOOLEAN, e \in Movements : NodeDragStart(k, shiftKey, e)
  \/ \E e \in Movements : NodeDragMove(e)
  \/ NodeDragEnd
  \/ \E e \in Movements : Pan(e)
  \/ PlaneClick
  \/ AppendNode
  \/ DeleteSelectedNodes
  \/ ApplyPending

Spec == Init /\ [][Next]_vars

\* anchor drags: link, re-link and unlink, each release followed by the repair
NextEdge ==
  \/ \E k \in EdgeSources, ek \in 0..MaxEdgeKey : EdgeDragStart(k, ek)
  \/ \E over \in Overs(plane), at \in Points : EdgeDragMove(over, at)
  \/ \E over \in Overs(plane), at \in Points : EdgeDragRelease(over, at)
  \/ ApplyPending

SpecEdge == Init /\ [][NextEdge]_vars

\* the Plane's own handlers: zoom, pan, click-to-deselect
NextPlane ==
  \/ \E deltaY \in (0 - MaxDelta)..MaxDelta : Wheel(deltaY)
  \/ \E e \in Movements : Pan(e)
  \/ PlaneClick
  \/ ApplyPending

SpecPlane == InitPlane /\ [][NextPlane]_vars

\* the sizes of the container
Widths == {400, 800}
Heights == {300, 600}

\* initState$ in a container of any of the sizes
InitRoot ==
  /\ \E width \in Widths, height \in Heights :
       /\ root = [width |-> width, height |-> height,
                  window |-> windowMatrix(width, height)]
       /\ plane = initPlane(height \div (2 * 10))
  /\ queue = <<>>
  /\ drag = NoDrag
  /\ streams = NoStreams
  /\ last = [op |-> "init", key |-> Undefined, src |-> "init", nth |-> 0,
             raised |-> FALSE, edited |-> FALSE, root |-> root, pre |-> plane,
             ev |-> NoEvent]

\* the Root: resize, the Plane's reducers lifted to the Root, the edit operations
NextRoot ==
  \/ \E width \in Widths, height \in Heights : Resize(width, height)
  \/ \E deltaY \in (0 - MaxDelta)..MaxDelta : Wheel(deltaY)
  \/ \E k \in DemoKeys : Click(k)
  \/ PlaneClick
  \/ AppendNode
  \/ DeleteSelectedNodes
  \/ ApplyPending

SpecRoot == InitRoot /\ [][NextRoot]_vars

\* anchor drags whose every sample finds the pointer over an in-edge-node, the
\* anchor's own or another node's
NextHover ==
  \/ \E k \in EdgeSources, ek \in 0..MaxEdgeKey : EdgeDragStart(k, ek)
  \/ \E i \in 1..Len(plane.children), at \in Points :
       EdgeDragMove(plane.children[i].children[1], at)
  \/ \E i \in 1..Len(plane.children), at \in Points :
       EdgeDragRelease(plane.children[i].children[1], at)
  \/ ApplyPending

SpecHover == Init /\ [][NextHover]_vars

\* liftReducer on its own: keyed GraphNode reducers, their key present or not, lifted
\* onto Planes of any order and selection
Flags == {<<FALSE, FALSE>>, <<TRUE, FALSE>>, <<TRUE, TRUE>>}

KeySeqs ==
  {q \in UNION {[1..n -> DemoKeys] : n \in 0..Cardinality(DemoKeys)} :
     \A i, j \in 1..Len(q) : i # j => q[i] # q[j]}

LiftPlanes ==
  UNION {{[initPlane(18) EXCEPT !.children =
             [i \in 1..Len(q) |->
                [createNode(q[i]) EXCEPT !.selected = f[i][1], !.active = f[i][2]]]]
          : f \in [1..Len(q) -> Flags]} : q \in KeySeqs}

InitLift == InitWith(LiftPlanes)

\* a child emits a reducer on its self channel; keySink tags it with the child's key
KeyedReducer(k, fn) ==
  /\ Idle
  /\ Emit("keyed", k, NoEvent, <<nodeSelf(fn, k)>>, NoDrag)

NextLift ==
  \/ \E k \in DemoKeys \cup {Cardinality(DemoKeys)}, fn \in NodeReducers : KeyedReducer(k, fn)
  \/ ApplyPending

SpecLift == InitLift /\ [][NextLift]_vars

\* the GraphNode whose anchors are dragged while GraphNodes leave the Plane
StaleSources == {0}

\* the demo's tree, as it is or after a shift+click on its last GraphNode
StalePlanes ==
  {initPlane(18),
   [initPlane(18) EXCEPT !.children[3] = selectNode(initPlane(18).children[3])]}

InitStale == InitWith(StalePlanes)

\* GraphNodes leave the Plane while the handlers of an anchor are at work, the pointer
\* over anything the drag's snapshot holds
NextStale ==
  \/ \E k \in StaleSources, ek \in 0..MaxEdgeKey : EdgeDragStart(k, ek)
  \/ \E over \in Overs(initPlane(18)), at \in Points : EdgeDragMove(over, at)
  \/ \E over \in Overs(initPlane(18)), at \in Points : EdgeDragRelease(over, at)
  \/ DeleteDuringDrag
  \/ ApplyPending

SpecStale == InitStale /\ [][NextStale]_vars

\* the reducers a GraphNode emits on its parent channel with its key, by name
ParentReducers == {"makeActive", "makeOnlySelected"}

\* a GraphNode keyed k emits a reducer on its parent channel
KeyedParentReducer(k, fn) ==
  /\ Idle
  /\ Emit("parent", k, NoEvent, <<planeReducer(fn, k, <<>>)>>, NoDrag)

\* makeActive and makeOnlySelected on their own: their key present or not, on Planes
\* of any order and selection
NextTop ==
  \/ \E k \in DemoKeys \cup {Cardinality(DemoKeys)}, fn \in ParentReducers :
       KeyedParentReducer(k, fn)
  \/ ApplyPending

SpecTop == InitLift /\ [][NextTop]_vars

\* links drawn from the anchors of one GraphNode, selections, and the edit operations
NextLink ==
  \/ \E k \in StaleSources, ek \in 0..MaxEdgeKey : EdgeDragStart(k, ek)
  \/ \E over \in Overs(plane), at \in Points : EdgeDragMove(over, at)
  \/ \E over \in Overs(plane), at \in Points : EdgeDragRelease(over, at)
  \/ \E k \in DemoKeys : ShiftClick(k)
  \/ AppendNode
  \/ DeleteSelectedNodes
  \/ ApplyPending

SpecLink == Init /\ [][NextLink]_vars

\* a stream of sinks and the mutations of their channels
NextStreams ==
  \/ ReceiveSink
  \/ \E sink \in 1..MaxSinks, channel \in Channels : EmitOn(sink, channel)

SpecStreams == Init /\ [][NextStreams]_vars

\* ------------------------------------------------------------------ claims

activeCount(p) == Cardinality({i \in 1..Len(p.children) : p.children[i].active})

\* C1: in every reachable state, the state between the self reducer and the parent
\* reducer of one pointer event included, at most one GraphNode is active and every
\* active GraphNode is selected.
C1_AtMostOneActive ==
  /\ activeCount(plane) <= 1
  /\ \A i \in 1..Len(plane.children) : plane.children[i].active => plane.children[i].selected

\* C2: deleteSelectedNodes returns a tree whose Plane children are exactly the
\* GraphNodes of the input that are not selected, in their original order.
C2_DeleteRemovesSelected ==
  last.op = "deleteSelectedNodes" =>
    /\ ~last.raised
    /\ plane.children = SelectSeq(last.pre.children, LAMBDA n : ~n.selected)

\* C3: appendNode completes without error and adds exactly one GraphNode, keyed 0 on
\* an empty Plane and otherwise the largest key plus one, holding one in-edge-node and
\* one open out-edge-node; every GraphNode that existed stays.
C3_AppendAddsOneNode ==
  last.op = "appendNode" =>
    /\ ~last.raised
    /\ Len(plane.children) = Len(last.pre.children) + 1
    /\ keysOf(last.pre.children) \subseteq keysOf(plane.children)
    /\ \E i \in 1..Len(plane.children) :
         LET n == plane.children[i]
         IN /\ n.key = appendNodeKey(last.pre)
            /\ Len(n.children) = 2
            /\ n.children[1].type = "in-edge-node"
            /\ isOpen(n.children[2]) /\ n.children[2].to = NoPoint

\* C4: after appendNode the new GraphNode is selected and active and every GraphNode
\* that existed before is neither.
C4_AppendSelectsOnlyNew ==
  last.op = "appendNode" =>
    \E i \in 1..Len(plane.children) :
      /\ plane.children[i].key \notin keysOf(last.pre.children)
      /\ plane.children[i].selected /\ plane.children[i].active
      /\ \A j \in 1..Len(plane.children) :
           j # i => ~plane.children[j].selected /\ ~plane.children[j].active

\* C5: makeOnlySelected(k), k a key of the Plane, leaves the child keyed k at position
\* 0, selected and active, and every other child neither selected nor active.
C5_ExclusiveSelect ==
  (last.op = "makeOnlySelected" /\ hasKey(last.pre, last.key)) =>
    /\ Len(plane.children) = Len(last.pre.children)
    /\ plane.children[1].key = last.key
    /\ plane.children[1].selected /\ plane.children[1].active
    /\ \A i \in 2..Len(plane.children) :
         ~plane.children[i].selected /\ ~plane.children[i].active

\* makeOnlySelected was applied to a node that was not in front while a sibling was selected
C5_Witness ==
  /\ last.op = "makeOnlySelected"
  /\ hasKey(last.pre, last.key)
  /\ last.pre.children[1].key # last.key
  /\ \E i \in 1..Len(last.pre.children) :
       last.pre.children[i].key # last.key /\ last.pre.children[i].selected

\* the trailing-anchor invariant: exactly one out-edge-node is open, and it is the last child
trailingAnchor(node) ==
  /\ Len(node.children) >= 2
  /\ isOpen(node.children[Len(node.children)])
  /\ \A j \in 1..(Len(node.children) - 1) : ~isOpen(node.children[j])

\* C6: a GraphNode that had the trailing-anchor invariant when an anchor drag began
\* has it again after the release's reducer and the repair updateGraphNode; so every
\* GraphNode has it whenever no drag is in progress and no reducer is pending.
C6_TrailingAnchorRepaired ==
  /\ (/\ last.op = "updateGraphNode"
      /\ last.ev.name = "edge-release"
      /\ hasKey(plane, last.key)
      /\ trailingAnchor(childOf(last.ev.start, last.key)))
     => trailingAnchor(childOf(plane, last.key))
  /\ Idle => \A i \in 1..Len(plane.children) : trailingAnchor(plane.children[i])

\* a repair that removed an anchor: a linked anchor was dragged off and released
C6_Witness ==
  /\ last.op = "updateGraphNode"
  /\ last.ev.name = "edge-release"
  /\ trailingAnchor(childOf(last.ev.start, last.key))
  /\ Len(childOf(plane, last.key).children) < Len(childOf(last.pre, last.key).children)

\* the release of a drag that began on the open trailing anchor, over a foreign in-edge-node
linkRelease ==
  /\ last.op = "updateGraphNode"
  /\ last.ev.name = "edge-release"
  /\ ~last.ev.dropped
  /\ LET a0 == childOf(last.ev.start, last.key)
     IN /\ a0.children[Len(a0.children)].key = last.ev.edge
        /\ isOpen(a0.children[Len(a0.children)])
  /\ last.ev.sample.hoveredNode.type = "in-edge-node"
  /\ last.ev.sample.hoveredNode.parentKey # last.key

\* C7: releasing a drag of node A's open trailing anchor over the in-edge-node of a
\* node B # A leaves that anchor linked to B with no `to`, keeps every other anchor of
\* A and its link, and appends exactly one new open out-edge-node as A's last child.
C7_LinkAppendsTrailingAnchor ==
  linkRelease =>
    LET a0 == childOf(last.ev.start, last.key)
        a1 == childOf(plane, last.key)
        n == Len(a0.children)
    IN /\ Len(a1.children) = n + 1
       /\ \A j \in 1..(n - 1) :
            /\ a1.children[j].type = a0.children[j].type
            /\ a1.children[j].key = a0.children[j].key
            /\ a1.children[j].linkedTo = a0.children[j].linkedTo
       /\ a1.children[n].key = last.ev.edge
       /\ a1.children[n].linkedTo = last.ev.sample.hoveredNode.parentKey
       /\ a1.children[n].to = NoPoint
       /\ isOpen(a1.children[n + 1])
       /\ a1.children[n + 1].key \notin keysOf(a0.children)

\* a link made from a node that already held a linked anchor
C7_Witness ==
  /\ linkRelease
  /\ Len(childOf(last.ev.start, last.key).children) >= 3

\* the Plane's unit diagonal on screen, as its length and as changeZoom's zoomScale
diagonalInRange(p) == ~unitDiagonalBelow(p, ZoomMin) /\ ~unitDiagonalAbove(p, ZoomMax)
zoomScaleInRange(p) == ~zoomScaleBelow(p, ZoomMin) /\ ~zoomScaleAbove(p, ZoomMax)

\* C8: a Plane whose unit diagonal started within [5, 10] pixels (measured as its
\* length, or as changeZoom measures it) is still within [5, 10] after any wheel events.
C8_ZoomStaysInRange ==
  /\ diagonalInRange([plane EXCEPT !.exp = 0]) => diagonalInRange(plane)
  /\ zoomScaleInRange([plane EXCEPT !.exp = 0]) => zoomScaleInRange(plane)

\* C9: a keyed reducer whose key matches no child leaves the parent as it was, and
\* does not raise.
C9_LiftAbsentKeyIsIdentity ==
  (last.op \in NodeReducers /\ ~hasKey(last.pre, last.key)) =>
    /\ ~last.raised
    /\ plane = last.pre

\* a keyed reducer was applied to a parent that has children, none with its key
C9_Witness ==
  /\ last.op \in NodeReducers
  /\ ~hasKey(last.pre, last.key)
  /\ Len(last.pre.children) >= 1

\* C10: a keyed reducer (k, r) whose key matches a child returns a parent with the
\* same number of children in the same order, the first child keyed k replaced by r of
\* it, every other child as it was.
C10_LiftReplacesKeyedChild ==
  (last.op \in NodeReducers /\ hasKey(last.pre, last.key)) =>
    LET index == findIndex(last.pre.children, last.key)
    IN /\ Len(plane.children) = Len(last.pre.children)
       /\ \A i \in 1..Len(plane.children) :
            plane.children[i] = IF i = index
                                THEN nodeReducer(last.op, last.pre.children[i])
                                ELSE last.pre.children[i]
       /\ plane.offset = last.pre.offset
       /\ plane.base = last.pre.base /\ plane.exp = last.pre.exp

\* a keyed reducer changed a child that is not the first while it has siblings
C10_Witness ==
  /\ last.op \in NodeReducers
  /\ hasKey(last.pre, last.key)
  /\ findIndex(last.pre.children, last.key) > 1
  /\ plane # last.pre

\* C11: after a shift+click on a GraphNode that was neither selected nor active the
\* node is selected, active and first of the Plane's children; after a second
\* shift+click right after it the node is neither selected nor active and still first.
C11_ShiftClickTwice ==
  /\ (last.src = "shiftclick" /\ last.nth = 1 /\ queue = <<>>) =>
       /\ plane.children[1].key = last.key
       /\ plane.children[1].selected /\ plane.children[1].active
  /\ (last.src = "shiftclick" /\ last.nth = 2 /\ queue = <<>>) =>
       /\ plane.children[1].key = last.key
       /\ ~plane.children[1].selected /\ ~plane.children[1].active

\* the second shift+click has been applied, in a Plane that holds other nodes too
C11_Witness ==
  /\ last.src = "shiftclick" /\ last.nth = 2 /\ queue = <<>>
  /\ last.op = "deselectNode"
  /\ Len(plane.children) >= 2

outEdges(node) == SelectSeq(node.children, isOutEdge)
keySeq(seq) == [i \in 1..Len(seq) |-> seq[i].key]
distinctKeys(seq) == \A i, j \in 1..Len(seq) : i # j => seq[i].key # seq[j].key

\* q is p with one element taken out
oneRemoved(p, q) ==
  \E i \in 1..Len(p) : q = SubSeq(p, 1, i - 1) \o SubSeq(p, i + 1, Len(p))

C13_LinkedToOrTo ==
  \A i \in 1..Len(plane.children) :
    \A j \in 1..Len(plane.children[i].children) :
      LET e == plane.children[i].children[j]
      IN ~(e.linkedTo # Undefined /\ e.to # NoPoint)

\* a linked anchor was dragged off its target: it has a `to` and has lost its linkedTo
C13_Witness ==
  /\ last.op = "updateEdgeNode"
  /\ hasKey(plane, last.key)
  /\ \E j \in 1..Len(childOf(plane, last.key).children) :
       LET e == childOf(plane, last.key).children[j]
       IN /\ e.key = last.ev.edge
          /\ childOf(last.pre, last.key).children[j].linkedTo # Undefined
          /\ e.linkedTo = Undefined /\ e.to # NoPoint

\* C14: no out-edge-node is linked to its own GraphNode: over the in-edge-node of the
\* anchor's own node a drag sample is a position, never a link candidate.
C14_NeverLinkedToOwnNode ==
  \A i \in 1..Len(plane.children) :
    \A j \in 1..Len(plane.children[i].children) :
      LET e == plane.children[i].children[j]
      IN isOutEdge(e) => (e.linkedTo # e.parentKey /\ e.parentKey = plane.children[i].key)

\* a sample over an in-edge-node left the anchor a position: the in-edge-node was its own
C14_Witness ==
  /\ last.op = "updateEdgeNode"
  /\ last.ev.sample.hoveredNode.type = "none"
  /\ \E j \in 1..Len(childOf(plane, last.key).children) :
       LET e == childOf(plane, last.key).children[j]
       IN e.key = last.ev.edge /\ e.linkedTo = Undefined /\ e.to = last.ev.sample.position

\* C15: no reducer edits a node in place: once it has run, the tree it was given
\* still reads as it did before.
C15_NoInPlaceEdit ==
  last.op \in {"selectNode", "deselectNode", "makeActive", "makeOnlySelected", "dragNodes",
               "dragPlane", "updateEdgeNode", "updateGraphNode", "appendNode",
               "deleteSelectedNodes"}
    => ~last.edited

\* C16: but for resizeState, every step returns a Root with the width, the height and
\* the Window matrix of the Root it was given: the Plane's reducers lifted to the
\* Root, and the edit operations appendNode and deleteSelectedNodes.
C16_RootChangesOnlyByResize ==
  last.op \notin {"init", "resizeState"} =>
    /\ ~last.raised
    /\ root.width = last.root.width
    /\ root.height = last.root.height
    /\ root.window = last.root.window

\* C17: after resizeState(tree, width, height) the Root has that width and height, the
\* Window's matrix takes (-1, 1) to the canvas point (0, 0) and (1, -1) to (width,
\* height), and a resize from 800 x 600 to 400 x 300 halves both of its scale factors.
C17_ResizeSetsWindow ==
  last.op = "resizeState" =>
    /\ root.width = last.ev.width /\ root.height = last.ev.height
    /\ windowToCanvas(root.window, -1, 1) = <<0, 0>>
    /\ windowToCanvas(root.window, 1, -1) = <<last.ev.width, last.ev.height>>
    /\ (/\ last.root.width = 800 /\ last.root.height = 600
        /\ last.ev.width = 400 /\ last.ev.height = 300)
       => /\ 2 * root.window.xx = last.root.window.xx
          /\ 2 * root.window.yy = last.root.window.yy

\* a container of 800 x 600 has been resized to 400 x 300
C17_Witness ==
  /\ last.op = "resizeState"
  /\ last.root.width = 800 /\ last.root.height = 600
  /\ root.width = 400 /\ root.height = 300

\* canvas pixels per unit of the Plane, as a fraction
pixelsPerUnit(p) == <<scaleNum(p), scaleDen(p)>>

\* C18: a resize of the container leaves the Plane's canvas pixels per plane unit as
\* they were, on both axes.
C18_ResizeKeepsPlaneScale ==
  last.op = "resizeState" => pixelsPerUnit(plane) = pixelsPerUnit(last.pre)

\* the children of p other than GraphNode key are those of q, each as it was in q
siblingsUnchanged(p, q, key) ==
  /\ keySeq(p.children) = keySeq(q.children)
  /\ \A i \in 1..Len(p.children) : p.children[i].key # key => p.children[i] = q.children[i]

\* C19: a shift+click on an active GraphNode emits deselectNode on the node's own
\* channel and nothing for the Plane, and only that node changes, to neither selected
\* nor active; on a GraphNode that is not active it emits selectNode and makeActive,
\* after which the node is selected, active and first of the children, no sibling is
\* active, and every sibling is selected exactly if it was before.
C19_ShiftClick ==
  /\ last.op = "shiftclick" =>
       queue = IF childOf(plane, last.key).active
               THEN <<nodeSelf("deselectNode", last.key)>>
               ELSE <<nodeSelf("selectNode", last.key),
                      planeReducer("makeActive", last.key, <<>>)>>
  /\ (last.src = "shiftclick" /\ last.op \in {"selectNode", "deselectNode"}) =>
       /\ siblingsUnchanged(plane, last.pre, last.key)
       /\ childOf(plane, last.key) =
            [childOf(last.pre, last.key) EXCEPT !.selected = (last.op = "selectNode"),
                                                !.active = (last.op = "selectNode")]
       /\ last.op = "deselectNode" => (childOf(last.pre, last.key).active /\ queue = <<>>)
  /\ (last.src = "shiftclick" /\ last.op = "makeActive") =>
       /\ plane.children[1].key = last.key
       /\ plane.children[1].selected /\ plane.children[1].active
       /\ Len(plane.children) = Len(last.pre.children)
       /\ \A i \in 2..Len(plane.children) :
            /\ ~plane.children[i].active
            /\ hasKey(last.pre, plane.children[i].key)
            /\ plane.children[i] =
                 [childOf(last.pre, plane.children[i].key) EXCEPT !.active = FALSE]

\* makeActive of a shift+click brought a node forward and took the active flag from a
\* sibling that is still selected
C19_Witness ==
  /\ last.src = "shiftclick" /\ last.op = "makeActive" /\ queue = <<>>
  /\ last.pre.children[1].key # last.key
  /\ \E i \in 2..Len(plane.children) :
       /\ plane.children[i].selected
       /\ childOf(last.pre, plane.children[i].key).active

\* GraphNode key of p is selected and no other child of p is
soleSelected(p, key) ==
  \A i \in 1..Len(p.children) : p.children[i].selected <=> p.children[i].key = key

\* C20: a click without shift on a GraphNode that is active and the only selected one
\* emits deselectNode on the node's own channel alone: the node becomes neither
\* selected nor active and no sibling changes. On any other GraphNode it emits
\* makeOnlySelected for the Plane and nothing on the node's own channel.
C20_Click ==
  /\ last.op = "click" =>
       queue = IF childOf(plane, last.key).active /\ soleSelected(plane, last.key)
               THEN <<nodeSelf("deselectNode", last.key)>>
               ELSE <<planeReducer("makeOnlySelected", last.key, <<>>)>>
  /\ (last.src = "click" /\ last.op = "deselectNode") =>
       /\ siblingsUnchanged(plane, last.pre, last.key)
       /\ childOf(plane, last.key) =
            [childOf(last.pre, last.key) EXCEPT !.selected = FALSE, !.active = FALSE]
       /\ queue = <<>>

\* a click on the active GraphNode while a sibling is selected too
C20_Witness ==
  /\ last.op = "click"
  /\ childOf(plane, last.key).active /\ childOf(plane, last.key).selected
  /\ ~soleSelected(plane, last.key)
  /\ queue = <<planeReducer("makeOnlySelected", last.key, <<>>)>>

\* node translated by delta
translatedBy(node, before, delta) ==
  node = [before EXCEPT !.pos = <<before.pos[1] + delta[1], before.pos[2] + delta[2]>>]

\* C21: the first move sample of a drag on a GraphNode emits for the Plane, in this
\* order: dragNodes alone when the node is active; makeActive then dragNodes when it is
\* not active but selected, or the shift key is held; makeOnlySelected then dragNodes
\* otherwise. The selection reducer is applied before the move, so the dragged node
\* is selected when dragNodes runs and is moved by the sample's delta.
C21_DragStartOrder ==
  /\ last.op = "drag-start" =>
       LET state == childOf(plane, last.key)
           move == planeReducer("dragNodes", Undefined, last.ev.delta)
       IN queue = IF state.active THEN <<move>>
                  ELSE IF state.selected \/ last.ev.shiftKey
                       THEN <<planeReducer("makeActive", last.key, <<>>), move>>
                       ELSE <<planeReducer("makeOnlySelected", last.key, <<>>), move>>
  /\ (last.src = "drag-start" /\ last.op \in {"makeActive", "makeOnlySelected"}) =>
       /\ Len(queue) = 1 /\ Head(queue).fn = "dragNodes"
       /\ childOf(plane, drag.key).selected
  /\ (last.src = "drag-start" /\ last.op = "dragNodes") =>
       /\ queue = <<>>
       /\ childOf(last.pre, drag.key).selected
       /\ translatedBy(childOf(plane, drag.key), childOf(last.pre, drag.key), last.ev.delta)

\* a drag with the shift key began on a node that was not selected: makeActive ran,
\* then the move took the node and a selected sibling along
C21_Witness ==
  /\ last.src = "drag-start" /\ last.op = "dragNodes"
  /\ last.ev.shiftKey /\ last.ev.delta = <<1, 1>>
  /\ plane.children[1].key = drag.key /\ plane.children[1].pos # <<0, 0>>
  /\ \E i \in 2..Len(plane.children) :
       plane.children[i].selected /\ plane.children[i].pos # <<0, 0>>

\* C22: during a drag on a GraphNode, a move sample after the first emits exactly one
\* dragNodes with its delta when the delta is not zero (movementX or movementY is not
\* 0), and nothing when the delta is zero.
C22_MoveSampleEmitsMove ==
  last.op = "drag-move" =>
    queue = IF last.ev.delta # <<0, 0>>
            THEN <<planeReducer("dragNodes", Undefined, last.ev.delta)>>
            ELSE <<>>

\* C23: dragNodes(delta) translates by delta every GraphNode that is selected and
\* leaves the others as they were; the Plane's children keep their number, order and
\* keys, and every node its selected and active flags.
C23_DragNodesMovesSelected ==
  (last.op = "dragNodes" /\ last.src \in {"drag-start", "drag-move"}) =>
    /\ keySeq(plane.children) = keySeq(last.pre.children)
    /\ \A i \in 1..Len(plane.children) :
         LET node == plane.children[i]
             before == last.pre.children[i]
         IN /\ node.selected = before.selected /\ node.active = before.active
            /\ IF before.selected
               THEN translatedBy(node, before, last.ev.delta)
               ELSE node = before

\* a move by a delta that is not zero, with nodes to move and a node to leave
C23_Witness ==
  /\ last.op = "dragNodes" /\ last.src = "drag-move"
  /\ last.ev.delta = <<1, 1>>
  /\ \E i, j \in 1..Len(plane.children) :
       /\ i # j /\ plane.children[i].selected /\ plane.children[j].selected
       /\ plane.children[i].pos # last.pre.children[i].pos
  /\ \E i \in 1..Len(plane.children) : ~plane.children[i].selected

\* C24: makeActive(k) and makeOnlySelected(k) put the child keyed k first and keep the
\* other children in the order they had, so the keys are those of the input; when no
\* child is keyed k the parent comes back as it was, flags included.
C24_MoveTopKeepsOrder ==
  last.op \in ParentReducers =>
    IF hasKey(last.pre, last.key)
    THEN /\ plane.children[1].key = last.key
         /\ keySeq(Tail(plane.children)) =
              keySeq(SelectSeq(last.pre.children, LAMBDA c : c.key # last.key))
         /\ keysOf(plane.children) = keysOf(last.pre.children)
         /\ Len(plane.children) = Len(last.pre.children)
    ELSE plane = last.pre

\* the last of three children was moved to the front, past the other two
C24_Witness ==
  /\ last.op \in ParentReducers
  /\ Len(last.pre.children) = 3
  /\ last.pre.children[3].key = last.key
  /\ plane.children[1].key = last.key

\* C25: after dragPlane and after deselectGraphNodes every GraphNode of the Plane is
\* neither selected nor active, and the Plane's children have the keys they had, in
\* the same order.
C25_PanAndPlaneClickDeselectAll ==
  last.op \in {"dragPlane", "deselectGraphNodes"} =>
    /\ \A i \in 1..Len(plane.children) :
         ~plane.children[i].selected /\ ~plane.children[i].active
    /\ keySeq(plane.children) = keySeq(last.pre.children)

\* a pan over a Plane with two selected GraphNodes, one of them active
C25_Witness ==
  /\ last.op = "dragPlane"
  /\ \E i, j \in 1..Len(last.pre.children) :
       /\ i # j
       /\ last.pre.children[i].selected /\ last.pre.children[i].active
       /\ last.pre.children[j].selected
  /\ plane.offset # last.pre.offset

\* the out-edge-node keyed edge of GraphNode key
anchorOf(p, key, edge) == childOf(childOf(p, key), edge)

\* C26: once a move sample of an anchor drag has been processed, the anchor reflects
\* it: linkedTo is the key of the foreign GraphNode whose in-edge-node the sample
\* hovers, or else linkedTo is undefined and to is the pointer's position; so a move
\* from the in-edge-node of B straight to that of C makes C the candidate.
C26_AnchorReflectsSample ==
  (last.ev.name = "edge-move" /\ queue = <<>>) =>
    LET e == anchorOf(plane, last.ev.key, last.ev.edge)
        sample == last.ev.sample
    IN IF sample.hoveredNode.type # "none"
       THEN e.linkedTo = sample.hoveredNode.parentKey
       ELSE e.linkedTo = Undefined /\ e.to = sample.position

\* the linkedTo a sample gives the anchor
linkOf(sample) ==
  IF sample.hoveredNode.type # "none" THEN sample.hoveredNode.parentKey ELSE Undefined

\* C27: the release of an anchor emits the anchor's finalising reducer and then one
\* updateGraphNode for its GraphNode, and nothing else; the finalising reducer is
\* applied first, so the repair is given a tree in which the anchor has the linkedTo of
\* the release and no `to`.
C27_FinaliseBeforeRepair ==
  /\ last.op = "edge-release" =>
       queue = <<edgeSelf("releaseEdgeNode", last.key, last.ev.edge,
                          last.ev.sample.hoveredNode, last.ev.sample.position),
                 nodeSelf("updateGraphNode", last.key)>>
  /\ last.op = "releaseEdgeNode" =>
       queue = <<nodeSelf("updateGraphNode", last.key)>>
  /\ (last.op = "updateGraphNode" /\ last.ev.name = "edge-release") =>
       /\ queue = <<>>
       /\ anchorOf(last.pre, last.key, last.ev.edge).linkedTo = linkOf(last.ev.sample)
       /\ anchorOf(last.pre, last.key, last.ev.edge).to = NoPoint

\* the repair ran after a release that gave an open anchor its link, and appended
C27_Witness ==
  /\ last.op = "updateGraphNode" /\ last.ev.name = "edge-release"
  /\ anchorOf(last.ev.start, last.key, last.ev.edge).linkedTo = Undefined
  /\ anchorOf(last.pre, last.key, last.ev.edge).linkedTo # Undefined
  /\ Len(childOf(plane, last.key).children) = Len(childOf(last.pre, last.key).children) + 1

\* what the repair keeps of an edge node: its type, its key, its link
identOf(e) == <<e.type, e.key, e.linkedTo>>
identSeq(seq) == [i \in 1..Len(seq) |-> identOf(seq[i])]

\* C28: updateGraphNode returns the node as it was when its first out-edge-node
\* without linkedTo is its last child; when that anchor is not the last child, it
\* removes that one anchor and keeps the in-edge-node and the other out-edge-nodes,
\* with their keys and links, in their order; when every out-edge-node is linked it
\* appends one anchor and removes none.
C28_RepairCases ==
  (last.op = "updateGraphNode" /\ hasKey(last.pre, last.key)) =>
    LET before == childOf(last.pre, last.key).children
        after == childOf(plane, last.key).children
        index == findOpenIndex(before)
    IN /\ siblingsUnchanged(plane, last.pre, last.key)
       /\ index = Len(before) => childOf(plane, last.key) = childOf(last.pre, last.key)
       /\ (index >= 1 /\ index < Len(before)) =>
            identSeq(after) =
              identSeq(SubSeq(before, 1, index - 1) \o SubSeq(before, index + 1, Len(before)))
       /\ index = 0 =>
            /\ Len(after) = Len(before) + 1
            /\ identSeq(SubSeq(after, 1, Len(before))) = identSeq(before)
            /\ isOpen(after[Len(after)])

\* the repair removed an anchor that had a linked anchor before it and one after it
C28_Witness ==
  /\ last.op = "updateGraphNode" /\ hasKey(last.pre, last.key)
  /\ LET before == childOf(last.pre, last.key).children
         after == childOf(plane, last.key).children
     IN /\ Len(after) = Len(before) - 1
        /\ findOpenIndex(before) >= 3
        /\ Len(after) >= 3

\* the m out-edge-nodes of the node are evenly spaced: the i-th is at -1 + 2i / (m + 1)
\* of the node's edge (offsets count from the middle of the edge, in 1 / OffsetDen)
\* offsets are exact fractions here; the steps 2 / (n (n + 1)) are doubles in the code
evenlySpaced(node) ==
  LET outs == outEdges(node)
      m == Len(outs)
  IN \A i \in 1..m : outs[i].off * (m + 1) = (2 * i - (m + 1)) * OffsetDen

\* C29: from a GraphNode whose out-edge-nodes are evenly spaced, after any repairs by
\* addEdgeNode and removeEdgeNode the out-edge-nodes are evenly spaced for their new
\* number, no two of them at the same offset; an anchor added and an anchor removed
\* leave the others at the spacing of the number the node had before.
C29_AnchorsEvenlySpaced ==
  \A i \in 1..Len(plane.children) :
    LET outs == outEdges(plane.children[i])
    IN /\ evenlySpaced(plane.children[i])
       /\ \A a, b \in 1..Len(outs) : a # b => outs[a].off # outs[b].off

\* a removal after an addition: two anchors are left, a third of the edge from its
\* middle on either side, and their keys show that an earlier anchor is gone
C29_Witness ==
  /\ last.op = "updateGraphNode" /\ hasKey(last.pre, last.key)
  /\ LET before == outEdges(childOf(last.pre, last.key))
         after == outEdges(childOf(plane, last.key))
     IN /\ Len(before) = 3 /\ Len(after) = 2
        /\ 3 * after[1].off = 0 - OffsetDen /\ 3 * after[2].off = OffsetDen
        /\ after[1].off # before[1].off

emittedOn(key, emitted) == SelectSeq(emitted, LAMBDA e : e.channel = key)

C32_LinksReachPresentNodes ==
  \A i \in 1..Len(plane.children) :
    \A j \in 1..Len(plane.children[i].children) :
      LET e == plane.children[i].children[j]
      IN (isOutEdge(e) /\ e.linkedTo # Undefined) => hasKey(plane, e.linkedTo)

====
